---- MODULE Spec2Model ----
(***************************************************************************)
(* A model of the Concourse session client (src/src/Concourse.js) and of   *)
(* the pipeline-scoped client (src/src/subclients/TeamPipelineClient.js).  *)
(*                                                                         *)
(* A JavaScript value is a tagged record.  A JavaScript string is a        *)
(* sequence of tokens: a one-character token for every character of a      *)
(* name, and one indivisible token for a literal of the source text        *)
(* ("/teams/", "Bearer ", ...); concatenation and template literals are    *)
(* \o.  An object is a function from its keys to values; a key that is     *)
(* absent and a key that holds undefined read the same (Undefined).        *)
(*                                                                         *)
(* heap     the objects constructed so far (clients and sessions)          *)
(* frames   one entry per call made by the user of the library, with the   *)
(*          call's local variables, its position and its outcome           *)
(* history  the HTTP requests handed to the transport, in order            *)
(***************************************************************************)
EXTENDS Integers, Sequences, FiniteSets, TLC

VARIABLES heap, frames, history

vars == <<heap, frames, history>>

(***************************************************************************)
(* Bounds of the model and constants of the program.                       *)
(***************************************************************************)
MaxCalls == 2

DefaultCount == 50

MinCount == 1

NotFound == 404

(***************************************************************************)
(* JavaScript values.                                                      *)
(***************************************************************************)
Undefined == [t |-> "undefined"]

Null == [t |-> "null"]

Str(s) == [t |-> "string", v |-> s]

Num(n) == [t |-> "number", v |-> n]

Bool(b) == [t |-> "boolean", v |-> b]

Obj(r) == [t |-> "object", v |-> r]

Arr(s) == [t |-> "array", v |-> s]

Func(name) == [t |-> "function", v |-> name]

Ref(i) == [t |-> "ref", v |-> i]

\* ToBoolean: the test an `if`, `?:` or `||` applies to a value.
Truthy(v) ==
  CASE v.t = "undefined" -> FALSE
    [] v.t = "null" -> FALSE
    [] v.t = "boolean" -> v.v
    [] v.t = "number" -> v.v # 0
    [] v.t = "string" -> v.v # <<>>
    [] OTHER -> TRUE

\* a || b
OrElse(a, b) == IF Truthy(a) THEN a ELSE b

\* ${v} in a template literal
ToStr(v) ==
  CASE v.t = "string" -> v.v
    [] v.t = "undefined" -> <<"undefined">>
    [] v.t = "null" -> <<"null">>
    [] OTHER -> <<"[object]">>

\* o.k for an object o (a property that is absent reads undefined)
Prop(o, k) ==
  IF o.t = "object" /\ k \in DOMAIN o.v THEN o.v[k] ELSE Undefined

(***************************************************************************)
(* Validation: the declarative schemas of the validation module.           *)
(***************************************************************************)
Rule(type) ==
  [type |-> type, required |-> FALSE, hasMin |-> FALSE, min |-> 0,
   allowNull |-> FALSE, default |-> Undefined, pattern |-> FALSE]

string == Rule("string")

uri == Rule("uri")

integer == Rule("integer")

boolean == Rule("boolean")

object == Rule("object")

func == Rule("function")

required(rule) == [rule EXCEPT !.required = TRUE]

min(rule, n) == [rule EXCEPT !.hasMin = TRUE, !.min = n]

allowNull(rule) == [rule EXCEPT !.allowNull = TRUE]

default(rule, v) == [rule EXCEPT !.default = v]

regex(rule) == [rule EXCEPT !.pattern = TRUE]

\* A uri must be absolute: it starts with a scheme.
IsUri(s) == Len(s) > 0 /\ s[1] \in {"https://", "http://"}

\* /^(.*)\/(.*)$/ matches exactly the strings that hold a slash.
jobRegexTest(s) == \E i \in 1..Len(s) : s[i] = "/"

\* The constraint of `rule` that the value v violates, "" when there is none.
Violation(rule, v) ==
  CASE v.t = "undefined" -> IF rule.required THEN "is required" ELSE ""
    [] v.t = "null" /\ rule.allowNull -> ""
    [] rule.type \in {"string", "uri"} ->
         IF v.t # "string" THEN "must be a string"
         ELSE IF v.v = <<>> THEN "is not allowed to be empty"
         ELSE IF rule.type = "uri" /\ ~IsUri(v.v) THEN "must be a valid uri"
         ELSE IF rule.pattern /\ ~jobRegexTest(v.v)
                THEN "fails to match the required pattern"
         ELSE ""
    [] rule.type = "integer" ->
         IF v.t # "number" THEN "must be a number"
         ELSE IF rule.hasMin /\ v.v < rule.min
                THEN "must be larger than or equal to the minimum"
         ELSE ""
    [] rule.type = "boolean" ->
         IF v.t # "boolean" THEN "must be a boolean" ELSE ""
    [] rule.type = "object" ->
         IF v.t # "object" THEN "must be an object" ELSE ""
    [] rule.type = "function" ->
         IF v.t # "function" THEN "must be a Function" ELSE ""
    [] OTHER -> "is not allowed"

\* An error value.  `response` is the HTTP response a transport error carries
\* (undefined for a network failure and for every error that is not the
\* transport's).
Err(name, message, response, violations) ==
  [name |-> name, message |-> message, response |-> response,
   violations |-> violations]

NoError == Err("", <<>>, Undefined, {})

ValidationError(violations) ==
  Err("ValidationError", <<"Invalid parameter(s): ">>, Undefined, violations)

\* validateOptions(schemaFor(schema).without(a, b), options): the options with
\* the defaults filled in, or the error listing every violated constraint.
\* `without` is <<>> or a pair <<a, b>>: b is forbidden when a is present.
validateOptions(schema, without, options) ==
  LET fieldViolations ==
        {<<k, Violation(schema[k], options[k])>> : k \in DOMAIN schema}
      conflicts ==
        IF without # <<>>
           /\ options[without[1]] # Undefined
           /\ options[without[2]] # Undefined
        THEN {<<without[1], "conflict with forbidden peer">>}
        ELSE {}
      violations == {x \in fieldViolations : x[2] # ""} \cup conflicts
      value ==
        [k \in DOMAIN schema |->
           IF options[k] = Undefined THEN schema[k].default ELSE options[k]]
  IN  [ok |-> violations = {}, value |-> value,
       error |-> IF violations = {} THEN NoError
                 ELSE ValidationError(violations)]

(***************************************************************************)
(* URL composer, authentication headers and response transformers.         *)
(***************************************************************************)
teamPipelineJobsUrl(apiUrl, teamName, pipelineName) ==
  ToStr(apiUrl) \o <<"/teams/">> \o ToStr(teamName)
    \o <<"/pipelines/">> \o ToStr(pipelineName) \o <<"/jobs">>

teamPipelineJobUrl(apiUrl, teamName, pipelineName, jobName) ==
  ToStr(apiUrl) \o <<"/teams/">> \o ToStr(teamName)
    \o <<"/pipelines/">> \o ToStr(pipelineName)
    \o <<"/jobs/">> \o ToStr(jobName)

teamPipelineUrl(apiUrl, teamName, pipelineName) ==
  ToStr(apiUrl) \o <<"/teams/">> \o ToStr(teamName)
    \o <<"/pipelines/">> \o ToStr(pipelineName)

teamPipelinePauseUrl(apiUrl, teamName, pipelineName) ==
  teamPipelineUrl(apiUrl, teamName, pipelineName) \o <<"/pause">>

teamPipelineUnpauseUrl(apiUrl, teamName, pipelineName) ==
  teamPipelineUrl(apiUrl, teamName, pipelineName) \o <<"/unpause">>

authTokenUri(base, teamName) ==
  ToStr(base) \o <<"/teams/">> \o ToStr(teamName) \o <<"/auth/token">>

jobsUri(base, teamName, pipelineName) ==
  ToStr(base) \o <<"/teams/">> \o ToStr(teamName)
    \o <<"/pipelines/">> \o ToStr(pipelineName) \o <<"/jobs">>

pipelinesUri(base, teamName) ==
  ToStr(base) \o <<"/teams/">> \o ToStr(teamName) \o <<"/pipelines">>

allPipelinesUri(base) == ToStr(base) \o <<"/pipelines">>

allBuildsUri(base) == ToStr(base) \o <<"/builds">>

buildsUri(base, teamName) ==
  ToStr(base) \o <<"/teams/">> \o ToStr(teamName) \o <<"/builds">>

pipelineBuildsUri(base, teamName, pipelineName) ==
  ToStr(base) \o <<"/teams/">> \o ToStr(teamName)
    \o <<"/pipelines/">> \o ToStr(pipelineName) \o <<"/builds">>

jobBuildsUri(base, teamName, pipelineName, jobName) ==
  ToStr(base) \o <<"/teams/">> \o ToStr(teamName)
    \o <<"/pipelines/">> \o ToStr(pipelineName)
    \o <<"/jobs/">> \o ToStr(jobName) \o <<"/builds">>

NoHeaders == [Authorization |-> <<>>]

\* Authorization: Basic base64(username:password)
basicAuthHeader(username, password) ==
  [Authorization |->
     <<"Basic ", "base64(">> \o ToStr(username) \o <<":">>
       \o ToStr(password) \o <<")">>]

bearerAuthHeader(token) ==
  [Authorization |-> <<"Bearer ">> \o ToStr(token)]

\* A response body on the wire is JSON text; parseJson reads the value it
\* denotes, and leaves a body that is no text as it is.
Json(v) == [t |-> "json", v |-> v]

parseJson(body) == IF body.t = "json" THEN body.v ELSE body

\* camelCase of one key, for the keys of the wire format.
camelCase(k) ==
  CASE k = "team_name" -> "teamName"
    [] k = "pipeline_name" -> "pipelineName"
    [] k = "next_build" -> "nextBuild"
    [] k = "start_time" -> "startTime"
    [] OTHER -> k

RECURSIVE camelcaseKeysDeep(_)
camelcaseKeysDeep(v) ==
  CASE v.t = "object" ->
         Obj([k2 \in {camelCase(k) : k \in DOMAIN v.v} |->
                camelcaseKeysDeep(
                  v.v[CHOOSE k \in DOMAIN v.v : camelCase(k) = k2])])
    [] v.t = "array" ->
         Arr([i \in 1..Len(v.v) |-> camelcaseKeysDeep(v.v[i])])
    [] OTHER -> v

\* transformResponse: [f, g] applies f, then g, to the body; a request that
\* names no transformer gets the transport's own, which reads the JSON text.
transformDefault(body) == parseJson(body)

transformCamel(body) == camelcaseKeysDeep(body)

transformJsonCamel(body) == camelcaseKeysDeep(parseJson(body))

(***************************************************************************)
(* The classes: schemas and constructors.  A constructor yields the error  *)
(* it throws (NoError when it returns) and the fields it has assigned to   *)
(* `this` when it leaves.                                                  *)
(***************************************************************************)
NoFields == [k \in {} |-> Undefined]

ConcourseSchema ==
  [uri |-> required(uri), teamName |-> string,
   username |-> string, password |-> string]

ConcourseConstructor(options) ==
  LET validated == validateOptions(ConcourseSchema, <<>>, options)
      validatedOptions == validated.value
  IN  IF ~validated.ok
      THEN [error |-> validated.error, cls |-> "Concourse", f |-> NoFields]
      ELSE [error |-> NoError, cls |-> "Concourse",
            f |-> [uri |-> validatedOptions.uri,
                   teamName |-> validatedOptions.teamName,
                   username |-> validatedOptions.username,
                   password |-> validatedOptions.password]]

TeamPipelineClientSchema ==
  [apiUrl |-> required(uri), httpClient |-> required(func),
   team |-> required(object), pipeline |-> required(object)]

\* The constructor as it would be if it assigned the options as given, and
\* validated them afterwards.
TeamPipelineClientConstructorAssignFirst(options) ==
  LET validated == validateOptions(TeamPipelineClientSchema, <<>>, options)
  IN  [error |-> validated.error, cls |-> "TeamPipelineClient",
       f |-> [apiUrl |-> options.apiUrl, httpClient |-> options.httpClient,
              team |-> options.team, pipeline |-> options.pipeline]]

TeamPipelineClientConstructor(options) ==
  LET validated == validateOptions(TeamPipelineClientSchema, <<>>, options)
      validatedOptions == validated.value
  IN  IF ~validated.ok
      THEN [error |-> validated.error, cls |-> "TeamPipelineClient",
            f |-> NoFields]
      ELSE [error |-> NoError, cls |-> "TeamPipelineClient",
            f |-> [apiUrl |-> validatedOptions.apiUrl,
                   httpClient |-> validatedOptions.httpClient,
                   team |-> validatedOptions.team,
                   pipeline |-> validatedOptions.pipeline]]

TeamPipelineJobClientSchema ==
  [apiUrl |-> required(uri), httpClient |-> required(func),
   team |-> required(object), pipeline |-> required(object),
   job |-> required(object)]

TeamPipelineJobClientConstructor(options) ==
  LET validated == validateOptions(TeamPipelineJobClientSchema, <<>>, options)
      validatedOptions == validated.value
  IN  IF ~validated.ok
      THEN [error |-> validated.error, cls |-> "TeamPipelineJobClient",
            f |-> NoFields]
      ELSE [error |-> NoError, cls |-> "TeamPipelineJobClient",
            f |-> [apiUrl |-> validatedOptions.apiUrl,
                   httpClient |-> validatedOptions.httpClient,
                   team |-> validatedOptions.team,
                   pipeline |-> validatedOptions.pipeline,
                   job |-> validatedOptions.job]]

loginSchema ==
  [username |-> required(string), password |-> required(string),
   teamName |-> string]

jobsSchema == [pipeline |-> required(string)]

pipelinesSchema == [all |-> boolean]

buildsSchema ==
  [count |-> default(allowNull(min(integer, MinCount)), Num(DefaultCount)),
   pipeline |-> string,
   job |-> regex(string),
   team |-> boolean]

getJobSchema == [jobName |-> required(string)]

(***************************************************************************)
(* The transport (an external collaborator): the requests it is handed and *)
(* the responses it can give.                                              *)
(***************************************************************************)
Request(call, via, method, url, headers, params, transformResponse) ==
  [call |-> call, via |-> via, method |-> method, url |-> url,
   headers |-> headers, params |-> params,
   transformResponse |-> transformResponse]

NetworkError == Err("Error", <<"Network Error">>, Undefined, {})

StatusError(status) ==
  Err("Error", <<"Request failed with status code">>,
      Obj([status |-> Num(status)]), {})

TransportFailures ==
  {NetworkError, StatusError(NotFound), StatusError(500)}

\* What the session is explored with: the exchange refused or unreachable,
\* the listing unreachable.
ExchangeFailures == {StatusError(401), NetworkError}

ListingFailures == {NetworkError}

Success(body) == [ok |-> TRUE, data |-> body, error |-> NoError]

Failure(e) == [ok |-> FALSE, data |-> Undefined, error |-> e]

DigitTokens == <<"0", "1", "2", "3", "4", "5", "6", "7", "8", "9">>

Digits(n) ==
  IF n < 10 THEN <<DigitTokens[n + 1]>>
  ELSE <<DigitTokens[(n \div 10) + 1], DigitTokens[(n % 10) + 1]>>

\* The server issues a fresh token at every exchange, and answers a listing
\* with a body that names the request it answers.
TokenFromApi(k) == Json(Obj([value |-> Str(<<"token-">> \o Digits(k))]))

ListingFromApi(k) ==
  Json(Arr(<<Obj([id |-> Num(k), team_name |-> Str(<<"t">>)])>>))

JobFromApi(name) ==
  Json(Obj([name |-> name,
            team_name |-> Str(<<"t">>),
            pipeline_name |-> Str(<<"p">>),
            next_build |-> Obj([start_time |-> Num(1)])]))

JobsFromApi == Json(Arr(<<JobFromApi(Str(<<"j">>)).v>>))

(***************************************************************************)
(* The values the user of the library passes in.                           *)
(***************************************************************************)
ApiUrl == Str(<<"https://", "c", "i">>)

Team == Obj([id |-> Num(1), name |-> Str(<<"t">>)])

Pipeline == Obj([id |-> Num(2), name |-> Str(<<"p">>), teamName |-> Str(<<"t">>)])

HttpClient == Func("httpClient")

Axios == Func("axios")

ValidSessionOptions ==
  [uri |-> ApiUrl, teamName |-> Str(<<"t">>),
   username |-> Str(<<"u">>), password |-> Str(<<"w">>)]

ValidClientOptions ==
  [apiUrl |-> ApiUrl, httpClient |-> HttpClient,
   team |-> Team, pipeline |-> Pipeline]

\* A second client, of another team and with a transport handle of its own.
OtherClientOptions ==
  [ValidClientOptions EXCEPT
     !.httpClient = Func("otherHttpClient"),
     !.team = Obj([id |-> Num(3), name |-> Str(<<"s">>)])]

Allocated(r) == [cls |-> r.cls, f |-> r.f]

InitialHeap ==
  <<Allocated(ConcourseConstructor(ValidSessionOptions)),
    Allocated(TeamPipelineClientConstructor(ValidClientOptions))>>

SessionOptions ==
  {ValidSessionOptions,
   [ValidSessionOptions EXCEPT !.teamName = Undefined,
                               !.username = Undefined,
                               !.password = Undefined],
   [ValidSessionOptions EXCEPT !.uri = Undefined],
   [ValidSessionOptions EXCEPT !.uri = Str(<<"s", "p">>)],
   [ValidSessionOptions EXCEPT !.username = Num(5)]}

ClientOptions ==
  {ValidClientOptions,
   OtherClientOptions,
   [ValidClientOptions EXCEPT !.apiUrl = Undefined],
   [ValidClientOptions EXCEPT !.apiUrl = Num(25)],
   [ValidClientOptions EXCEPT !.apiUrl = Str(<<"s", "p">>)],
   [ValidClientOptions EXCEPT !.httpClient = Num(35)],
   [ValidClientOptions EXCEPT !.team = Undefined],
   [ValidClientOptions EXCEPT !.team = Str(<<"w">>)],
   [ValidClientOptions EXCEPT !.pipeline = Undefined],
   [ValidClientOptions EXCEPT !.pipeline = Str(<<"w">>),
                              !.httpClient = Undefined]}

LoginOptions ==
  {[username |-> Str(<<"v">>), password |-> Str(<<"x">>), teamName |-> Undefined],
   [username |-> Str(<<"v">>), password |-> Str(<<"x">>), teamName |-> Str(<<"s">>)],
   [username |-> Undefined, password |-> Str(<<"x">>), teamName |-> Undefined],
   [username |-> Str(<<"v">>), password |-> Num(7), teamName |-> Undefined]}

JobsOptions ==
  {[pipeline |-> Str(<<"p">>)], [pipeline |-> Undefined], [pipeline |-> Num(3)]}

PipelinesOptions ==
  {[all |-> Undefined], [all |-> Bool(TRUE)], [all |-> Str(<<"y">>)]}

NoBuildsOptions ==
  [count |-> Undefined, pipeline |-> Undefined, job |-> Undefined,
   team |-> Undefined]

BuildsOptions ==
  {NoBuildsOptions,
   [NoBuildsOptions EXCEPT !.count = Null],
   [NoBuildsOptions EXCEPT !.count = Num(0)],
   [NoBuildsOptions EXCEPT !.count = Num(-1)],
   [NoBuildsOptions EXCEPT !.count = Num(1), !.team = Bool(TRUE)],
   [NoBuildsOptions EXCEPT !.job = Str(<<"p", "/", "j">>), !.team = Bool(TRUE)],
   [NoBuildsOptions EXCEPT !.job = Str(<<"a", "/", "b", "/", "c">>)],
   [NoBuildsOptions EXCEPT !.job = Str(<<"p", "/">>)],
   [NoBuildsOptions EXCEPT !.job = Str(<<"/", "j">>)],
   [NoBuildsOptions EXCEPT !.job = Str(<<"/">>), !.team = Bool(TRUE)],
   [NoBuildsOptions EXCEPT !.job = Str(<<"p", "j">>)],
   [NoBuildsOptions EXCEPT !.pipeline = Str(<<"p">>), !.team = Bool(TRUE)],
   [NoBuildsOptions EXCEPT !.job = Str(<<"p", "/", "j">>),
                           !.pipeline = Str(<<"p">>)],
   [NoBuildsOptions EXCEPT !.job = Str(<<"p", "/", "j">>),
                           !.pipeline = Str(<<"q">>),
                           !.count = Null, !.team = Bool(TRUE)]}

\* The few of them the session as a whole is explored with.
CoreBuildsOptions ==
  {[NoBuildsOptions EXCEPT !.job = Str(<<"p", "/", "j">>), !.count = Num(2)],
   [NoBuildsOptions EXCEPT !.count = Null, !.team = Bool(TRUE)],
   [NoBuildsOptions EXCEPT !.count = Num(0)],
   [NoBuildsOptions EXCEPT !.job = Str(<<"p", "/", "j">>),
                           !.pipeline = Str(<<"p">>)]}

CorePipelinesOptions == {[all |-> Bool(TRUE)], [all |-> Str(<<"y">>)]}

JobNames == {Undefined, Num(12345), Str(<<"j">>), Str(<<"k">>)}

CoreJobNames == {Undefined, Num(12345), Str(<<"j">>)}

(***************************************************************************)
(* Calls.                                                                  *)
(***************************************************************************)
Frame(op, self, args) ==
  [op |-> op, self |-> self, args |-> args, pc |-> "running",
   validatedOptions |-> Undefined, bearerAuthToken |-> Undefined,
   received |-> <<>>, alloc |-> 0, ret |-> Undefined, err |-> NoError]

Resolve(frame, value) == [frame EXCEPT !.pc = "resolved", !.ret = value]

Reject(frame, e) == [frame EXCEPT !.pc = "rejected", !.err = e]

\* `received` keeps every response the transport has handed to the call.
Receive(frame, response) ==
  [frame EXCEPT !.received = Append(frame.received, response)]

\* The objects a user of the library holds a reference to: the two built at
\* the start, and every object a call has returned.
Live(i) ==
  /\ i \in 1..Len(heap)
  /\ \/ i <= Len(InitialHeap)
     \/ \E c \in 1..Len(frames) :
          frames[c].pc = "resolved" /\ frames[c].ret = Ref(i)

Sessions == {i \in 1..Len(heap) : Live(i) /\ heap[i].cls = "Concourse"}

PipelineClients ==
  {i \in 1..Len(heap) : Live(i) /\ heap[i].cls = "TeamPipelineClient"}

CanCall == Len(frames) < MaxCalls

(***************************************************************************)
(* Concourse: the session.                                                 *)
(***************************************************************************)
\* new Concourse(options), called by the user
NewConcourse(options) ==
  /\ CanCall
  /\ LET c == Len(frames) + 1
         made == ConcourseConstructor(options)
         i == Len(heap) + 1
         frame == [Frame("new Concourse", 0, options) EXCEPT !.alloc = i]
     IN  /\ heap' = Append(heap, Allocated(made))
         /\ frames' = Append(frames,
              IF made.error = NoError THEN Resolve(frame, Ref(i))
              ELSE Reject(frame, made.error))
  /\ UNCHANGED history

\* login: the whole call, which awaits nothing
login(this, options) ==
  LET validated == validateOptions(loginSchema, <<>>, options)
      validatedOptions == validated.value
  IN  IF ~validated.ok
      THEN [error |-> validated.error, cls |-> "", f |-> NoFields]
      ELSE ConcourseConstructor(
             [uri |-> this.uri,
              teamName |-> OrElse(validatedOptions.teamName, this.teamName),
              username |-> validatedOptions.username,
              password |-> validatedOptions.password])

\* login as it would be if it rebound the receiver and returned it.
LoginInPlace(self, options) ==
  /\ CanCall
  /\ LET made == login(heap[self].f, options)
         frame == Frame("login", self, options)
     IN  IF made.cls = ""
         THEN /\ frames' = Append(frames, Reject(frame, made.error))
              /\ UNCHANGED heap
         ELSE /\ heap' = [heap EXCEPT ![self] = Allocated(made)]
              /\ frames' = Append(frames,
                   Resolve([frame EXCEPT !.alloc = self], Ref(self)))
  /\ UNCHANGED history

Login(self, options) ==
  /\ CanCall
  /\ LET made == login(heap[self].f, options)
         i == Len(heap) + 1
         frame == Frame("login", self, options)
     IN  IF made.cls = ""
         THEN /\ frames' = Append(frames, Reject(frame, made.error))
              /\ UNCHANGED heap
         ELSE /\ heap' = Append(heap, Allocated(made))
              /\ frames' = Append(frames,
                   IF made.error = NoError
                   THEN Resolve([frame EXCEPT !.alloc = i], Ref(i))
                   ELSE Reject([frame EXCEPT !.alloc = i], made.error))
  /\ UNCHANGED history

\* The token exchange every listing starts with.
tokenRequest(c, this) ==
  Request(c, Axios, "GET", authTokenUri(this.uri, this.teamName),
          basicAuthHeader(this.username, this.password), NoFields,
          <<"default">>)

\* A listing up to its first await: the frame it leaves and the requests it
\* has issued.
Enter(frame, validated, requests) ==
  IF ~validated.ok
  THEN [frame |-> Reject(frame, validated.error), requests |-> <<>>]
  ELSE [frame |-> [frame EXCEPT !.pc = "awaitToken",
                                !.validatedOptions = validated.value],
        requests |-> requests]

\* jobs as it would be if it started the token exchange before validating.
jobsEnterRequestFirst(c, this, options) ==
  LET entered == Enter(Frame("jobs", 0, options),
                       validateOptions(jobsSchema, <<>>, options),
                       <<tokenRequest(c, this)>>)
  IN  [frame |-> entered.frame, requests |-> <<tokenRequest(c, this)>>]

jobsEnter(c, this, options) ==
  Enter(Frame("jobs", 0, options),
        validateOptions(jobsSchema, <<>>, options),
        <<tokenRequest(c, this)>>)

pipelinesEnter(c, this, options) ==
  Enter(Frame("pipelines", 0, options),
        validateOptions(pipelinesSchema, <<>>, options),
        <<tokenRequest(c, this)>>)

\* The validation of builds as it would be without the exclusion of job and
\* pipeline.
buildsValidateNoExclusion(options) ==
  validateOptions(buildsSchema, <<>>, options)

buildsValidate(options) ==
  validateOptions(buildsSchema, <<"job", "pipeline">>, options)

buildsEnter(c, this, options) ==
  Enter(Frame("builds", 0, options),
        buildsValidate(options),
        <<tokenRequest(c, this)>>)

\* jobRegex.exec(s)[1] and [2] for a string the pattern matches: `.*` is
\* greedy, so the first group runs up to the last slash.
LastSlash(s) == CHOOSE i \in 1..Len(s) :
                  s[i] = "/" /\ \A j \in (i + 1)..Len(s) : s[j] # "/"

jobRegexExec(s) ==
  <<Str(SubSeq(s, 1, LastSlash(s) - 1)),
    Str(SubSeq(s, LastSlash(s) + 1, Len(s)))>>

buildsUriFor(base, teamName, pipelineName, jobName, team) ==
  IF Truthy(jobName)
  THEN jobBuildsUri(base, teamName, pipelineName, jobName)
  ELSE IF Truthy(pipelineName)
  THEN pipelineBuildsUri(base, teamName, pipelineName)
  ELSE IF Truthy(team)
  THEN buildsUri(base, teamName)
  ELSE allBuildsUri(base)

\* The parameters as they would be if the count were always passed on.
buildsParamsAlways(validatedOptions) == [limit |-> validatedOptions.count]

buildsParams(validatedOptions) ==
  IF Truthy(validatedOptions.count)
  THEN [limit |-> validatedOptions.count]
  ELSE NoFields

\* The target request of jobs as it would be with the basic credentials in
\* place of the token.
jobsTargetRequestBasic(c, this, validatedOptions, bearerAuthToken) ==
  Request(c, Axios, "GET",
          jobsUri(this.uri, this.teamName, validatedOptions.pipeline),
          basicAuthHeader(this.username, this.password), NoFields,
          <<"camelcaseKeysDeep">>)

jobsTargetRequest(c, this, validatedOptions, bearerAuthToken) ==
  Request(c, Axios, "GET",
          jobsUri(this.uri, this.teamName, validatedOptions.pipeline),
          bearerAuthHeader(Prop(bearerAuthToken, "value")), NoFields,
          <<"camelcaseKeysDeep">>)

\* The target request of pipelines as it would be if the first token any
\* call obtained were kept and used again.
pipelinesTargetRequestReusing(c, this, validatedOptions, bearerAuthToken) ==
  LET holders == {d \in 1..Len(frames) :
                    frames[d].bearerAuthToken # Undefined}
      kept == IF holders = {} THEN bearerAuthToken
              ELSE frames[CHOOSE d \in holders :
                            \A e \in holders : d <= e].bearerAuthToken
  IN  Request(c, Axios, "GET",
              IF Truthy(validatedOptions.all)
              THEN allPipelinesUri(this.uri)
              ELSE pipelinesUri(this.uri, this.teamName),
              bearerAuthHeader(Prop(kept, "value")), NoFields,
              <<"camelcaseKeysDeep">>)

pipelinesTargetRequest(c, this, validatedOptions, bearerAuthToken) ==
  Request(c, Axios, "GET",
          IF Truthy(validatedOptions.all)
          THEN allPipelinesUri(this.uri)
          ELSE pipelinesUri(this.uri, this.teamName),
          bearerAuthHeader(Prop(bearerAuthToken, "value")), NoFields,
          <<"camelcaseKeysDeep">>)

\* The target request of builds as it would be if the validated options
\* were kept in a variable that every call of builds shares: the options of
\* the call made last.
buildsTargetRequestSharedOptions(c, this, validatedOptions, bearerAuthToken) ==
  LET latest == frames[Len(frames)]
      shared == IF latest.op = "builds" /\ latest.validatedOptions # Undefined
                THEN latest.validatedOptions
                ELSE validatedOptions
      pipelineName ==
        IF Truthy(shared.job)
        THEN jobRegexExec(shared.job.v)[1]
        ELSE shared.pipeline
      jobName ==
        IF Truthy(shared.job)
        THEN jobRegexExec(shared.job.v)[2]
        ELSE Undefined
  IN  Request(c, Axios, "GET",
              buildsUriFor(this.uri, this.teamName, pipelineName, jobName,
                           shared.team),
              bearerAuthHeader(Prop(bearerAuthToken, "value")),
              buildsParams(shared),
              <<"camelcaseKeysDeep">>)

buildsTargetRequest(c, this, validatedOptions, bearerAuthToken) ==
  LET pipelineName ==
        IF Truthy(validatedOptions.job)
        THEN jobRegexExec(validatedOptions.job.v)[1]
        ELSE validatedOptions.pipeline
      jobName ==
        IF Truthy(validatedOptions.job)
        THEN jobRegexExec(validatedOptions.job.v)[2]
        ELSE Undefined
  IN  Request(c, Axios, "GET",
              buildsUriFor(this.uri, this.teamName, pipelineName, jobName,
                           validatedOptions.team),
              bearerAuthHeader(Prop(bearerAuthToken, "value")),
              buildsParams(validatedOptions),
              <<"camelcaseKeysDeep">>)

\* The call as it would be if the method kept its arguments on the object
\* it is called on.
CallKeepingArguments(self, entered) ==
  /\ CanCall
  /\ frames' = Append(frames, [entered.frame EXCEPT !.self = self])
  /\ history' = history \o entered.requests
  /\ heap' = [heap EXCEPT
       ![self].f = [k \in DOMAIN heap[self].f \cup {"options"} |->
                     IF k = "options" THEN entered.frame.args
                     ELSE heap[self].f[k]]]

\* The call of a listing by the user: validation, then the token request.
Call(self, entered) ==
  /\ CanCall
  /\ frames' = Append(frames, [entered.frame EXCEPT !.self = self])
  /\ history' = history \o entered.requests
  /\ UNCHANGED heap

Jobs(self, options) ==
  Call(self, jobsEnter(Len(frames) + 1, heap[self].f, options))

Pipelines(self, options) ==
  Call(self, pipelinesEnter(Len(frames) + 1, heap[self].f, options))

Builds(self, options) ==
  Call(self, buildsEnter(Len(frames) + 1, heap[self].f, options))

\* The responses the transport can give to the request a call awaits.
TokenResponses == {Success(TokenFromApi(Len(history)))}
                    \cup {Failure(e) : e \in ExchangeFailures}

\* The place in the history of the request the call c issued last (0 when
\* it has issued none).
LastRequestOf(c) ==
  IF \E r \in 1..Len(history) : history[r].call = c
  THEN CHOOSE r \in 1..Len(history) :
         /\ history[r].call = c
         /\ \A q \in (r + 1)..Len(history) : history[q].call # c
  ELSE 0

ListingResponses(c) ==
  {Success(ListingFromApi(LastRequestOf(c)))}
    \cup {Failure(e) : e \in ListingFailures}

\* The token response arrives: the call fails with the transport's error, or
\* keeps the token and issues its target request.
\* The continuation as it would be if a failed exchange were swallowed and
\* the call went on without a token.
AfterTokenSwallowing(c, op, response, target) ==
  /\ frames[c].op = op
  /\ frames[c].pc = "awaitToken"
  /\ frames' = [frames EXCEPT
       ![c] = [Receive(frames[c], response) EXCEPT
                 !.pc = "awaitTarget",
                 !.bearerAuthToken = transformDefault(response.data)]]
  /\ history' = Append(history, target)
  /\ UNCHANGED heap

AfterToken(c, op, response, target) ==
  /\ frames[c].op = op
  /\ frames[c].pc = "awaitToken"
  /\ IF ~response.ok
     THEN /\ frames' = [frames EXCEPT
                ![c] = Reject(Receive(frames[c], response), response.error)]
          /\ UNCHANGED history
     ELSE /\ frames' = [frames EXCEPT
                ![c] = [Receive(frames[c], response) EXCEPT
                          !.pc = "awaitTarget",
                          !.bearerAuthToken = transformDefault(response.data)]]
          /\ history' = Append(history, target)
  /\ UNCHANGED heap

JobsAfterToken(c, response) ==
  AfterToken(c, "jobs", response,
    jobsTargetRequest(c, heap[frames[c].self].f, frames[c].validatedOptions,
                      transformDefault(response.data)))

PipelinesAfterToken(c, response) ==
  AfterToken(c, "pipelines", response,
    pipelinesTargetRequest(c, heap[frames[c].self].f,
                           frames[c].validatedOptions,
                           transformDefault(response.data)))

BuildsAfterToken(c, response) ==
  AfterToken(c, "builds", response,
    buildsTargetRequest(c, heap[frames[c].self].f, frames[c].validatedOptions,
                        transformDefault(response.data)))

\* The target response arrives: the call returns its transformed body, or
\* fails with the transport's error.
AfterTarget(c, response) ==
  /\ frames[c].op \in {"jobs", "pipelines", "builds"}
  /\ frames[c].pc = "awaitTarget"
  /\ frames' = [frames EXCEPT
       ![c] = IF response.ok
              THEN Resolve(Receive(frames[c], response),
                           transformCamel(response.data))
              ELSE Reject(Receive(frames[c], response), response.error)]
  /\ UNCHANGED <<heap, history>>

(***************************************************************************)
(* TeamPipelineClient.                                                     *)
(***************************************************************************)
\* new TeamPipelineClient(options), called by the user
NewTeamPipelineClient(options) ==
  /\ CanCall
  /\ LET made == TeamPipelineClientConstructor(options)
         i == Len(heap) + 1
         frame == [Frame("new TeamPipelineClient", 0, options)
                     EXCEPT !.alloc = i]
     IN  /\ heap' = Append(heap, Allocated(made))
         /\ frames' = Append(frames,
              IF made.error = NoError THEN Resolve(frame, Ref(i))
              ELSE Reject(frame, made.error))
  /\ UNCHANGED history

\* listJobs up to its await
listJobsEnter(c, this) ==
  [frame |-> [Frame("listJobs", 0, Undefined) EXCEPT !.pc = "awaitGet"],
   requests |->
     <<Request(c, this.httpClient, "GET",
               teamPipelineJobsUrl(this.apiUrl, Prop(this.team, "name"),
                                   Prop(this.pipeline, "name")),
               NoHeaders, NoFields, <<"parseJson", "camelcaseKeysDeep">>)>>]

\* getJob up to its await: the frame it leaves and the requests it has issued
getJobEnter(c, this, jobName) ==
  LET validated == validateOptions(getJobSchema, <<>>, [jobName |-> jobName])
      validatedOptions == validated.value
  IN  IF ~validated.ok
      THEN [frame |-> Reject(Frame("getJob", 0, jobName), validated.error),
            requests |-> <<>>]
      ELSE [frame |-> [Frame("getJob", 0, jobName) EXCEPT
                         !.pc = "awaitGet",
                         !.validatedOptions = validatedOptions],
            requests |->
              <<Request(c, this.httpClient, "GET",
                        teamPipelineJobUrl(this.apiUrl,
                                           Prop(this.team, "name"),
                                           Prop(this.pipeline, "name"),
                                           validatedOptions.jobName),
                        NoHeaders, NoFields,
                        <<"parseJson", "camelcaseKeysDeep">>)>>]

\* getJob as it would be if it translated a not-found response itself.
getJobSettleTranslating(response) ==
  IF response.ok
  THEN [error |-> NoError, value |-> transformJsonCamel(response.data)]
  ELSE IF Truthy(response.error.response)
          /\ Prop(response.error.response, "status") = Num(NotFound)
  THEN [error |-> Err("Error", <<"No job for name: ">>, Undefined, {}),
        value |-> Undefined]
  ELSE [error |-> response.error, value |-> Undefined]

\* The outcome of getJob when its response arrives: [error, value].
getJobSettle(response) ==
  IF response.ok
  THEN [error |-> NoError, value |-> transformJsonCamel(response.data)]
  ELSE [error |-> response.error, value |-> Undefined]

\* The catch clause as it would be if it translated every error that carries
\* a response, whatever its status.
forJobCatchAnyStatus(e, jobName) ==
  IF Truthy(e.response)
  THEN Err("Error", <<"No job for name: ">> \o ToStr(jobName), Undefined, {})
  ELSE e

\* The catch clause of forJob: the error it throws for the error e it caught.
forJobCatch(e, jobName) ==
  IF Truthy(e.response) /\ Prop(e.response, "status") = Num(NotFound)
  THEN Err("Error", <<"No job for name: ">> \o ToStr(jobName), Undefined, {})
  ELSE e

\* The child as it would be built with the pipeline passed as the team.
forJobChildWrongTeam(this, job) ==
  TeamPipelineJobClientConstructor(
    [apiUrl |-> this.apiUrl, httpClient |-> this.httpClient,
     team |-> this.pipeline, pipeline |-> this.pipeline, job |-> job])

\* The child forJob builds once it holds the job.
forJobChild(this, job) ==
  TeamPipelineJobClientConstructor(
    [apiUrl |-> this.apiUrl, httpClient |-> this.httpClient,
     team |-> this.team, pipeline |-> this.pipeline, job |-> job])

\* forJob up to its await: it calls getJob, whose rejection it catches.
forJobEnter(c, this, jobName) ==
  LET entered == getJobEnter(c, this, jobName)
  IN  IF entered.frame.pc = "rejected"
      THEN [frame |-> Reject(Frame("forJob", 0, jobName),
                             forJobCatch(entered.frame.err, jobName)),
            requests |-> entered.requests]
      ELSE [frame |-> [entered.frame EXCEPT !.op = "forJob"],
            requests |-> entered.requests]

\* pause, unpause and delete up to their await: one write, without a body,
\* through the client's transport handle.
writeEnter(c, this, op, method, url) ==
  [frame |-> [Frame(op, 0, Undefined) EXCEPT !.pc = "awaitWrite"],
   requests |->
     <<Request(c, this.httpClient, method, url, NoHeaders, NoFields,
               <<"default">>)>>]

pauseEnter(c, this) ==
  writeEnter(c, this, "pause", "PUT",
             teamPipelinePauseUrl(this.apiUrl, Prop(this.team, "name"),
                                  Prop(this.pipeline, "name")))

\* unpause as it would be if it wrote to the URL of pause.
unpauseEnterPausing(c, this) ==
  writeEnter(c, this, "unpause", "PUT",
             teamPipelinePauseUrl(this.apiUrl, Prop(this.team, "name"),
                                  Prop(this.pipeline, "name")))

unpauseEnter(c, this) ==
  writeEnter(c, this, "unpause", "PUT",
             teamPipelineUnpauseUrl(this.apiUrl, Prop(this.team, "name"),
                                    Prop(this.pipeline, "name")))

deleteEnter(c, this) ==
  writeEnter(c, this, "delete", "DELETE",
             teamPipelineUrl(this.apiUrl, Prop(this.team, "name"),
                             Prop(this.pipeline, "name")))

ListJobs(self) ==
  Call(self, listJobsEnter(Len(frames) + 1, heap[self].f))

GetJob(self, jobName) ==
  Call(self, getJobEnter(Len(frames) + 1, heap[self].f, jobName))

ForJob(self, jobName) ==
  Call(self, forJobEnter(Len(frames) + 1, heap[self].f, jobName))

Pause(self) ==
  Call(self, pauseEnter(Len(frames) + 1, heap[self].f))

Unpause(self) ==
  Call(self, unpauseEnter(Len(frames) + 1, heap[self].f))

Delete(self) ==
  Call(self, deleteEnter(Len(frames) + 1, heap[self].f))

\* The responses the transport can give to a write: a status of success
\* without a body, or a failure.
WriteResponses ==
  {Success(Undefined)} \cup {Failure(e) : e \in TransportFailures}

\* The responses the transport can give to the GET of a call.
JobsResponses == {Success(JobsFromApi)} \cup {Failure(e) : e \in TransportFailures}

JobResponses(c) ==
  {Success(JobFromApi(frames[c].args))}
    \cup {Failure(e) : e \in TransportFailures}

CoreResponses(responses) ==
  {r \in responses :
     r.ok \/ r.error \in {StatusError(NotFound), NetworkError}}

ListJobsResponse(c, response) ==
  /\ frames[c].op = "listJobs"
  /\ frames[c].pc = "awaitGet"
  /\ frames' = [frames EXCEPT
       ![c] = IF response.ok
              THEN Resolve(Receive(frames[c], response),
                           transformJsonCamel(response.data))
              ELSE Reject(Receive(frames[c], response), response.error)]
  /\ UNCHANGED <<heap, history>>

GetJobResponse(c, response) ==
  /\ frames[c].op = "getJob"
  /\ frames[c].pc = "awaitGet"
  /\ LET settled == getJobSettle(response)
     IN  frames' = [frames EXCEPT
           ![c] = IF settled.error = NoError
                  THEN Resolve(Receive(frames[c], response), settled.value)
                  ELSE Reject(Receive(frames[c], response), settled.error)]
  /\ UNCHANGED <<heap, history>>

\* The continuation of forJob as it would be if it asked once more after a
\* failure without a response.
ForJobResponseRetrying(c, response) ==
  /\ frames[c].op = "forJob"
  /\ frames[c].pc = "awaitGet"
  /\ LET settled == getJobSettle(response)
         frame == Receive(frames[c], response)
         made == forJobChild(heap[frames[c].self].f, settled.value)
         i == Len(heap) + 1
     IN  IF settled.error = NetworkError /\ frames[c].received = <<>>
         THEN /\ frames' = [frames EXCEPT ![c] = frame]
              /\ history' = Append(history, history[LastRequestOf(c)])
              /\ UNCHANGED heap
         ELSE IF settled.error # NoError
         THEN /\ frames' = [frames EXCEPT
                   ![c] = Reject(frame,
                                 forJobCatch(settled.error, frames[c].args))]
              /\ UNCHANGED <<heap, history>>
         ELSE /\ heap' = Append(heap, Allocated(made))
              /\ frames' = [frames EXCEPT
                   ![c] = IF made.error = NoError
                          THEN Resolve([frame EXCEPT !.alloc = i], Ref(i))
                          ELSE Reject([frame EXCEPT !.alloc = i], made.error)]
              /\ UNCHANGED history

ForJobResponse(c, response) ==
  /\ frames[c].op = "forJob"
  /\ frames[c].pc = "awaitGet"
  /\ LET settled == getJobSettle(response)
         frame == Receive(frames[c], response)
         made == forJobChild(heap[frames[c].self].f, settled.value)
         i == Len(heap) + 1
     IN  IF settled.error # NoError
         THEN /\ frames' = [frames EXCEPT
                   ![c] = Reject(frame,
                                 forJobCatch(settled.error, frames[c].args))]
              /\ UNCHANGED heap
         ELSE /\ heap' = Append(heap, Allocated(made))
              /\ frames' = [frames EXCEPT
                   ![c] = IF made.error = NoError
                          THEN Resolve([frame EXCEPT !.alloc = i], Ref(i))
                          ELSE Reject([frame EXCEPT !.alloc = i], made.error)]
  /\ UNCHANGED history

\* The response to a write arrives: the call returns nothing, or fails with
\* the transport's error.
WriteResponse(c, response) ==
  /\ frames[c].op \in {"pause", "unpause", "delete"}
  /\ frames[c].pc = "awaitWrite"
  /\ frames' = [frames EXCEPT
       ![c] = IF response.ok
              THEN Resolve(Receive(frames[c], response), Undefined)
              ELSE Reject(Receive(frames[c], response), response.error)]
  /\ UNCHANGED <<heap, history>>

Init ==
  /\ heap = InitialHeap
  /\ frames = <<>>
  /\ history = <<>>

ResponsesSession ==
  \/ \E c \in 1..Len(frames), response \in TokenResponses :
       JobsAfterToken(c, response)
  \/ \E c \in 1..Len(frames), response \in TokenResponses :
       PipelinesAfterToken(c, response)
  \/ \E c \in 1..Len(frames), response \in TokenResponses :
       BuildsAfterToken(c, response)
  \/ \E c \in 1..Len(frames) :
       \E response \in ListingResponses(c) : AfterTarget(c, response)

NextSession ==
  \/ \E options \in SessionOptions : NewConcourse(options)
  \/ \E self \in Sessions, options \in LoginOptions : Login(self, options)
  \/ \E self \in Sessions, options \in JobsOptions : Jobs(self, options)
  \/ \E self \in Sessions, options \in PipelinesOptions :
       Pipelines(self, options)
  \/ \E self \in Sessions, options \in CoreBuildsOptions :
       Builds(self, options)
  \/ ResponsesSession

NextBuilds ==
  \/ \E self \in Sessions, options \in BuildsOptions : Builds(self, options)
  \/ \E c \in 1..Len(frames), response \in TokenResponses :
       BuildsAfterToken(c, response)
  \/ \E c \in 1..Len(frames) :
       \E response \in ListingResponses(c) : AfterTarget(c, response)

NextClient ==
  \/ \E options \in ClientOptions : NewTeamPipelineClient(options)
  \/ \E self \in PipelineClients : ListJobs(self)
  \/ \E self \in PipelineClients, jobName \in JobNames : GetJob(self, jobName)
  \/ \E self \in PipelineClients, jobName \in JobNames : ForJob(self, jobName)
  \/ \E c \in 1..Len(frames), response \in JobsResponses :
       ListJobsResponse(c, response)
  \/ \E c \in 1..Len(frames) :
       \E response \in JobResponses(c) : GetJobResponse(c, response)
  \/ \E c \in 1..Len(frames) :
       \E response \in JobResponses(c) : ForJobResponse(c, response)
  \/ \E self \in PipelineClients : Pause(self)
  \/ \E self \in PipelineClients : Unpause(self)
  \/ \E self \in PipelineClients : Delete(self)
  \/ \E c \in 1..Len(frames), response \in WriteResponses :
       WriteResponse(c, response)

\* Both classes together, each with a few of its inputs.
Next ==
  \/ \E options \in SessionOptions : NewConcourse(options)
  \/ \E options \in ClientOptions : NewTeamPipelineClient(options)
  \/ \E self \in Sessions, options \in LoginOptions : Login(self, options)
  \/ \E self \in Sessions, options \in JobsOptions : Jobs(self, options)
  \/ \E self \in Sessions, options \in CorePipelinesOptions :
       Pipelines(self, options)
  \/ \E self \in Sessions, options \in CoreBuildsOptions :
       Builds(self, options)
  \/ \E self \in PipelineClients : ListJobs(self)
  \/ \E self \in PipelineClients, jobName \in CoreJobNames :
       GetJob(self, jobName)
  \/ \E self \in PipelineClients, jobName \in CoreJobNames :
       ForJob(self, jobName)
  \/ \E c \in 1..Len(frames), response \in CoreResponses(TokenResponses) :
       JobsAfterToken(c, response)
  \/ \E c \in 1..Len(frames), response \in CoreResponses(TokenResponses) :
       PipelinesAfterToken(c, response)
  \/ \E c \in 1..Len(frames), response \in CoreResponses(TokenResponses) :
       BuildsAfterToken(c, response)
  \/ \E c \in 1..Len(frames) :
       \E response \in CoreResponses(ListingResponses(c)) :
         AfterTarget(c, response)
  \/ \E c \in 1..Len(frames), response \in CoreResponses(JobsResponses) :
       ListJobsResponse(c, response)
  \/ \E c \in 1..Len(frames) :
       \E response \in CoreResponses(JobResponses(c)) :
         GetJobResponse(c, response)
  \/ \E c \in 1..Len(frames) :
       \E response \in CoreResponses(JobResponses(c)) :
         ForJobResponse(c, response)

Spec == Init /\ [][Next]_vars

SpecSession == Init /\ [][NextSession]_vars

SpecBuilds == Init /\ [][NextBuilds]_vars

SpecClient == Init /\ [][NextClient]_vars
(***************************************************************************)
(* Properties.                                                             *)
(***************************************************************************)
Calls == 1..Len(frames)

RequestsOf(c) == SelectSeq(history, LAMBDA r : r.call = c)

\* The GET of call c has failed, with the error e.
GetFailed(c, e) ==
  /\ Len(frames[c].received) = 1
  /\ ~frames[c].received[1].ok
  /\ frames[c].received[1].error = e

GetFailedWithNotFound(c) == GetFailed(c, StatusError(NotFound))

\* The job with the given name as the client hands it out: the keys of
\* JobFromApi in camel case, at every depth.
JobForClient(name) ==
  Obj([name |-> name,
       teamName |-> Str(<<"t">>),
       pipelineName |-> Str(<<"p">>),
       nextBuild |-> Obj([startTime |-> Num(1)])])

\* C1: when the GET of forJob(n) fails with a 404 response, forJob fails with
\* an error whose message is exactly "No job with name: n", and returns no
\* child client.
C1_NotFoundMessage ==
  \A c \in Calls :
    frames[c].op = "forJob" /\ GetFailedWithNotFound(c) =>
      /\ frames[c].pc = "rejected"
      /\ frames[c].err.message = <<"No job with name: ">> \o ToStr(frames[c].args)
      /\ frames[c].ret = Undefined
      /\ frames[c].alloc = 0

\* C2: when the GET of forJob(n) succeeds, forJob returns a new job client
\* whose apiUrl, httpClient, team and pipeline are the parent's, whose job is
\* the normalized entity the GET returned, and which is not the parent.
C2_ForJobChild ==
  \A c \in Calls :
    /\ frames[c].op = "forJob"
    /\ Len(frames[c].received) = 1
    /\ frames[c].received[1].ok
    => LET parent == heap[frames[c].self].f
           i == frames[c].alloc
       IN  /\ frames[c].pc = "resolved"
           /\ i \in 1..Len(heap)
           /\ frames[c].ret = Ref(i)
           /\ i # frames[c].self
           /\ i > Len(InitialHeap)
           /\ \A d \in Calls \ {c} : frames[d].alloc # i
           /\ heap[i].cls = "TeamPipelineJobClient"
           /\ heap[i].f.apiUrl = parent.apiUrl
           /\ heap[i].f.httpClient = parent.httpClient
           /\ heap[i].f.team = parent.team
           /\ heap[i].f.pipeline = parent.pipeline
           /\ heap[i].f.job = JobForClient(frames[c].args)
           /\ heap[i].f.job
                = camelcaseKeysDeep(parseJson(frames[c].received[1].data))

C2_Witness ==
  \E c \in Calls :
    /\ frames[c].op = "forJob"
    /\ frames[c].pc = "resolved"
    /\ frames[c].args = Str(<<"k">>)
    /\ heap[frames[c].alloc].f.job = JobForClient(Str(<<"k">>))

\* C3: when the GET of forJob fails with anything but a 404 response (no
\* response at all, or another status), forJob fails with the very error the
\* transport raised and returns no client.
C3_OtherFailuresPropagate ==
  \A c \in Calls : \A e \in TransportFailures \ {StatusError(NotFound)} :
    frames[c].op = "forJob" /\ GetFailed(c, e) =>
      /\ frames[c].pc = "rejected"
      /\ frames[c].err = e
      /\ frames[c].ret = Undefined
      /\ frames[c].alloc = 0

C3_Witness ==
  \E c, d \in Calls :
    /\ frames[c].op = "forJob" /\ GetFailed(c, NetworkError)
    /\ frames[d].op = "forJob" /\ GetFailed(d, StatusError(500))
    /\ frames[c].pc = "rejected" /\ frames[d].pc = "rejected"

\* C4: getJob translates no failure: whatever error its GET fails with, a
\* 404 response included, getJob fails with that error; so for the same name
\* and the same 404 response getJob and forJob fail with different errors.
C4_GetJobPassesThrough ==
  /\ \A c \in Calls : \A e \in TransportFailures :
       frames[c].op = "getJob" /\ GetFailed(c, e) =>
         frames[c].pc = "rejected" /\ frames[c].err = e
  /\ \A c, d \in Calls :
       /\ frames[c].op = "getJob" /\ GetFailedWithNotFound(c)
       /\ frames[d].op = "forJob" /\ GetFailedWithNotFound(d)
       /\ frames[c].args = frames[d].args
       => /\ frames[c].pc = "rejected" /\ frames[d].pc = "rejected"
          /\ frames[c].err # frames[d].err

C4_Witness ==
  \E c, d \in Calls :
    /\ frames[c].op = "getJob" /\ GetFailedWithNotFound(c)
    /\ frames[d].op = "forJob" /\ GetFailedWithNotFound(d)
    /\ frames[c].args = frames[d].args
    /\ frames[c].err = StatusError(NotFound)
\* What the schemas accept, said directly.
IsName(v) == v.t = "string" /\ v.v # <<>>

IsOptionalName(v) == v = Undefined \/ IsName(v)

IsAbsoluteUri(v) == IsName(v) /\ v.v[1] \in {"https://", "http://"}

IsOptionalBoolean(v) == v = Undefined \/ v.t = "boolean"

ClientOptionsValid(o) ==
  /\ IsAbsoluteUri(o.apiUrl)
  /\ o.httpClient.t = "function"
  /\ o.team.t = "object"
  /\ o.pipeline.t = "object"

SessionOptionsValid(o) ==
  /\ IsAbsoluteUri(o.uri)
  /\ IsOptionalName(o.teamName)
  /\ IsOptionalName(o.username)
  /\ IsOptionalName(o.password)

LoginOptionsValid(o) ==
  IsName(o.username) /\ IsName(o.password) /\ IsOptionalName(o.teamName)

BuildsOptionsValid(o) ==
  /\ \/ o.count \in {Undefined, Null}
     \/ o.count.t = "number" /\ o.count.v >= 1
  /\ IsOptionalName(o.pipeline)
  /\ \/ o.job = Undefined
     \/ IsName(o.job) /\ \E i \in 1..Len(o.job.v) : o.job.v[i] = "/"
  /\ IsOptionalBoolean(o.team)
  /\ ~(o.job # Undefined /\ o.pipeline # Undefined)

ArgumentsValid(op, args) ==
  CASE op \in {"getJob", "forJob"} -> IsName(args)
    [] op = "jobs" -> IsName(args.pipeline)
    [] op = "pipelines" -> IsOptionalBoolean(args.all)
    [] op = "builds" -> BuildsOptionsValid(args)
    [] op = "login" -> LoginOptionsValid(args)
    [] op = "new Concourse" -> SessionOptionsValid(args)
    [] op = "new TeamPipelineClient" -> ClientOptionsValid(args)
    [] OTHER -> TRUE

Constructors == {"new Concourse", "new TeamPipelineClient"}

\* C5: constructing a TeamPipelineClient or a Concourse session issues no
\* request; with an invalid field the constructor throws and the object has
\* no field assigned and is handed to nobody; with valid fields it returns
\* the object with each field set to the validated value.
C5_ConstructionAllOrNothing ==
  /\ \A r \in 1..Len(history) : frames[history[r].call].op \notin Constructors
  /\ \A c \in Calls :
       frames[c].op \in Constructors =>
         LET o == frames[c].args
             i == frames[c].alloc
         IN  /\ i \in 1..Len(heap)
             /\ IF ArgumentsValid(frames[c].op, o)
                THEN /\ frames[c].pc = "resolved"
                     /\ frames[c].ret = Ref(i)
                     /\ heap[i].f = o
                     /\ heap[i].cls = IF frames[c].op = "new Concourse"
                                      THEN "Concourse"
                                      ELSE "TeamPipelineClient"
                ELSE /\ frames[c].pc = "rejected"
                     /\ frames[c].err.name = "ValidationError"
                     /\ frames[c].ret = Undefined
                     /\ heap[i].f = NoFields
                     /\ ~Live(i)

C5_Witness ==
  \E c, d \in Calls :
    /\ frames[c].op = "new TeamPipelineClient"
    /\ frames[c].pc = "rejected"
    /\ frames[c].args.team = Str(<<"w">>)
    /\ frames[d].op = "new Concourse"
    /\ frames[d].pc = "resolved"
    /\ heap[frames[d].alloc].f.username = Undefined

\* C6: an operation that takes arguments validates them before any I/O: with
\* invalid arguments getJob, forJob, jobs, pipelines, builds and login fail
\* with a validation error and have issued no request, not even the token
\* exchange.
C6_ValidationBeforeIO ==
  \A c \in Calls :
    /\ frames[c].op \in {"getJob", "forJob", "jobs", "pipelines", "builds",
                         "login"}
    /\ ~ArgumentsValid(frames[c].op, frames[c].args)
    => /\ frames[c].pc = "rejected"
       /\ frames[c].err.name = "ValidationError"
       /\ RequestsOf(c) = <<>>
       /\ frames[c].received = <<>>

C6_Witness ==
  \E c, d \in Calls :
    /\ frames[c].op = "jobs"
    /\ frames[c].args.pipeline = Undefined
    /\ frames[c].pc = "rejected"
    /\ frames[d].op = "forJob"
    /\ frames[d].args = Num(12345)
    /\ frames[d].pc = "rejected"
    /\ history = <<>>
Listings == {"jobs", "pipelines", "builds"}

\* The call c has issued its target request.
TargetIssued(c) == Len(RequestsOf(c)) = 2

\* C7: builds chooses its URL by strict precedence: a job reference goes to
\* the job-build endpoint of the pipeline and job parsed from it, else a
\* pipeline name to the pipeline-build endpoint, else a true team flag to the
\* team's build endpoint, else the global build endpoint; a job reference
\* never resolves to a pipeline, team or global listing.
C7_ScopePrecedence ==
  \A c \in Calls :
    frames[c].op = "builds" /\ TargetIssued(c) =>
      LET o == frames[c].args
          this == heap[frames[c].self].f
      IN  RequestsOf(c)[2].url =
            IF o.job # Undefined
            THEN jobBuildsUri(this.uri, this.teamName,
                              jobRegexExec(o.job.v)[1],
                              jobRegexExec(o.job.v)[2])
            ELSE IF o.pipeline # Undefined
            THEN pipelineBuildsUri(this.uri, this.teamName, o.pipeline)
            ELSE IF o.team = Bool(TRUE)
            THEN buildsUri(this.uri, this.teamName)
            ELSE allBuildsUri(this.uri)

\* C8: builds called with both a job reference and a pipeline name fails with
\* a validation error and issues no request, whatever its other options.
C8_JobExcludesPipeline ==
  \A c \in Calls :
    /\ frames[c].op = "builds"
    /\ frames[c].args.job # Undefined
    /\ frames[c].args.pipeline # Undefined
    => /\ frames[c].pc = "rejected"
       /\ frames[c].err.name = "ValidationError"
       /\ RequestsOf(c) = <<>>

C8_Witness ==
  \E c, d \in Calls :
    /\ frames[c].op = "builds" /\ frames[d].op = "builds"
    /\ frames[c].args.job # Undefined /\ frames[c].args.pipeline # Undefined
    /\ frames[c].args.count = Null /\ frames[c].args.team = Bool(TRUE)
    /\ frames[c].pc = "rejected"
    /\ frames[d].args.job # Undefined /\ frames[d].args.pipeline = Undefined
    /\ TargetIssued(d)

\* C9: the count option of builds decides the limit parameter of the listing
\* request: omitted, limit=50; an integer >= 1, limit=count; null, no limit
\* parameter; an integer < 1, a validation error and no request.
C9_CountDecidesLimit ==
  \A c \in Calls :
    frames[c].op = "builds" =>
      LET count == frames[c].args.count
      IN  /\ count = Undefined /\ TargetIssued(c) =>
               RequestsOf(c)[2].params = [limit |-> Num(50)]
          /\ count.t = "number" /\ TargetIssued(c) =>
               count.v >= 1 /\ RequestsOf(c)[2].params = [limit |-> count]
          /\ count = Null /\ TargetIssued(c) =>
               DOMAIN RequestsOf(c)[2].params = {}
          /\ count.t = "number" /\ count.v < 1 =>
               /\ frames[c].pc = "rejected"
               /\ frames[c].err.name = "ValidationError"
               /\ RequestsOf(c) = <<>>

C9_Witness ==
  \E c, d \in Calls :
    /\ frames[c].op = "builds" /\ frames[d].op = "builds"
    /\ frames[c].args.count = Null
    /\ TargetIssued(c)
    /\ frames[d].args.count = Num(1)
    /\ TargetIssued(d)

\* The token the exchange of call c returned.
OwnToken(c) == Prop(parseJson(frames[c].received[1].data), "value")

C10_TwoRequests ==
  \A c \in Calls :
    frames[c].op \in Listings /\ frames[c].pc = "resolved" =>
      LET rs == RequestsOf(c)
          this == heap[frames[c].self].f
      IN  /\ Len(rs) = 2
          /\ Len(frames[c].received) = 2
          /\ rs[1].method = "GET"
          /\ rs[1].url = authTokenUri(this.uri, this.teamName)
          /\ rs[1].headers = basicAuthHeader(this.username, this.password)
          /\ rs[2].method = "GET"
          /\ rs[2].url # rs[1].url
          /\ frames[c].received[1].ok
          /\ OwnToken(c).t = "string"
          /\ rs[2].headers = [Authorization |-> <<"Bearer ">> \o OwnToken(c).v]

\* The step that issues the target request of a call is the step in which
\* the call, until then awaiting its exchange, is handed the token.
C10_TargetAfterToken ==
  \A c \in Calls :
    frames[c].op \in Listings /\ ~TargetIssued(c) /\ TargetIssued(c)' =>
      /\ frames[c].pc = "awaitToken"
      /\ frames[c].received = <<>>
      /\ Len(frames'[c].received) = 1
      /\ frames'[c].received[1].ok
      /\ history' = Append(history, RequestsOf(c)'[2])

\* C10: every successful call of jobs, pipelines or builds issues exactly two
\* requests, in this order: a GET of the token endpoint of the instance's
\* team with the basic-auth header of the instance's username and password,
\* then, only once that response has arrived, the target GET with the bearer
\* header of the token that the call's own exchange returned.
C10_ExchangeThenTarget == []C10_TwoRequests /\ [][C10_TargetAfterToken]_vars

C10_Witness ==
  \E c, d \in Calls :
    /\ c # d
    /\ frames[c].op = "jobs" /\ frames[c].pc = "resolved"
    /\ frames[d].op = "builds" /\ frames[d].pc = "resolved"
    /\ Len(history) = 4
    /\ history[1].call = history[3].call
    /\ history[2].call = history[4].call

\* A request of the token endpoint.
IsExchange(r) == r.url[Len(r.url)] = "/auth/token"

\* The call c has been handed a token by its exchange.
TokenObtained(c) ==
  /\ frames[c].op \in Listings
  /\ Len(frames[c].received) >= 1
  /\ frames[c].received[1].ok

SessionFields == {"uri", "teamName", "username", "password"}

\* C11: no bearer token is cached or reused: on every instance the number of
\* token exchanges issued is the number of calls of jobs, pipelines and
\* builds that passed validation; a target request carries the token of its
\* own call's exchange and never a token another call obtained; and the
\* instance has no field but its four, none of which holds a token.
C11_NoTokenReuse ==
  /\ \A i \in 1..Len(heap) :
       heap[i].cls = "Concourse" =>
         /\ Len(SelectSeq(history,
                          LAMBDA r : frames[r.call].self = i /\ IsExchange(r)))
              = Cardinality({c \in Calls :
                               /\ frames[c].op \in Listings
                               /\ frames[c].self = i
                               /\ ArgumentsValid(frames[c].op, frames[c].args)})
         /\ DOMAIN heap[i].f \subseteq SessionFields
         /\ \A k \in DOMAIN heap[i].f : \A c \in Calls :
              TokenObtained(c) =>
                heap[i].f[k] \notin {frames[c].bearerAuthToken, OwnToken(c)}
  /\ \A c \in Calls :
       frames[c].op \in Listings /\ TargetIssued(c) =>
         /\ TokenObtained(c)
         /\ RequestsOf(c)[2].headers = bearerAuthHeader(OwnToken(c))
         /\ \A d \in Calls \ {c} :
              TokenObtained(d) =>
                RequestsOf(c)[2].headers # bearerAuthHeader(OwnToken(d))

C11_Witness ==
  \E c, d \in Calls :
    /\ c < d
    /\ frames[c].self = frames[d].self
    /\ frames[c].op = "pipelines" /\ frames[c].pc = "resolved"
    /\ frames[d].op = "pipelines" /\ frames[d].pc = "resolved"
    /\ history[3].call = d
    /\ Len(SelectSeq(history, IsExchange)) = 2
    /\ OwnToken(c) # OwnToken(d)

\* What a call of login has produced.
C12_LoginResult ==
  \A c \in Calls :
    frames[c].op = "login" =>
      LET this == heap[frames[c].self].f
          o == frames[c].args
          i == frames[c].alloc
      IN  /\ RequestsOf(c) = <<>>
          /\ frames[c].received = <<>>
          /\ IF LoginOptionsValid(o)
             THEN /\ frames[c].pc = "resolved"
                  /\ i \in 1..Len(heap)
                  /\ frames[c].ret = Ref(i)
                  /\ i # frames[c].self
                  /\ i > Len(InitialHeap)
                  /\ \A d \in Calls \ {c} : frames[d].alloc # i
                  /\ heap[i].cls = "Concourse"
                  /\ heap[i].f =
                       [uri |-> this.uri,
                        teamName |-> IF o.teamName # Undefined
                                     THEN o.teamName ELSE this.teamName,
                        username |-> o.username,
                        password |-> o.password]
             ELSE /\ frames[c].pc = "rejected"
                  /\ frames[c].err.name = "ValidationError"
                  /\ frames[c].ret = Undefined
                  /\ i = 0

\* What a step in which login is called leaves alone: every object there
\* is, the receiver included, and the history; a login that fails makes no
\* object.
C12_LoginStep ==
  \A c \in 1..Len(frames') :
    c > Len(frames) /\ frames'[c].op = "login" =>
      /\ \A i \in 1..Len(heap) : i <= Len(heap') /\ heap'[i] = heap[i]
      /\ frames'[c].pc = "rejected" => heap' = heap
      /\ history' = history

\* C12: login returns a new instance, distinct from the receiver, with the
\* receiver's uri, the supplied username and password and the supplied
\* teamName (the receiver's when none is supplied); it leaves the receiver's
\* fields as they are, issues no request, and with a missing username or
\* password fails validation and produces no instance.
C12_LoginReturnsNewInstance == []C12_LoginResult /\ [][C12_LoginStep]_vars

C12_Witness ==
  \E c, d \in Calls :
    /\ frames[c].op = "login" /\ frames[c].pc = "resolved"
    /\ frames[c].args.teamName = Str(<<"s">>)
    /\ frames[d].op = "login" /\ frames[d].pc = "resolved"
    /\ frames[d].self = frames[c].alloc
    /\ frames[d].args.teamName = Undefined
    /\ heap[frames[d].alloc].f.teamName = Str(<<"s">>)
    /\ heap[frames[c].self].f = ValidSessionOptions

Writes == {"pause", "unpause", "delete"}

\* <apiUrl>/teams/<team>/pipelines/<pipeline> of the client `this`
PipelinePath(this) ==
  this.apiUrl.v \o <<"/teams/">> \o this.team.v.name.v
    \o <<"/pipelines/">> \o this.pipeline.v.name.v

Reads == {"listJobs", "getJob", "forJob"}

\* The requests of a read, at any moment of the call.
C14_Requests ==
  \A c \in Calls :
    frames[c].op \in Reads =>
      LET rs == RequestsOf(c)
          this == heap[frames[c].self].f
          n == frames[c].args
      IN  /\ Len(rs) <= 1
          /\ Len(frames[c].received) <= Len(rs)
          /\ frames[c].op = "listJobs" \/ IsName(n) =>
               /\ Len(rs) = 1
               /\ rs[1].method = "GET"
               /\ rs[1].via = this.httpClient
               /\ rs[1].url =
                    PipelinePath(this) \o
                      (IF frames[c].op = "listJobs" THEN <<"/jobs">>
                       ELSE <<"/jobs/">> \o n.v)
          /\ Len(frames[c].received) = 1 =>
               frames[c].pc \in {"resolved", "rejected"}

\* The step in which a read is handed its response issues no request.
C14_Settle ==
  \A c \in Calls :
    /\ frames[c].op \in Reads
    /\ frames[c].pc = "awaitGet"
    /\ frames'[c] # frames[c]
    => /\ history' = history
       /\ frames'[c].pc \in {"resolved", "rejected"}

\* C14: listJobs, getJob and forJob each issue exactly one GET, through the
\* client's own httpClient and to the URL of the pipeline's jobs or of the
\* job named, and never a second request, whether the GET succeeds or fails;
\* building the child in forJob issues no request.
C14_OneGet == []C14_Requests /\ [][C14_Settle]_vars

C14_Witness ==
  \E c, d \in Calls :
    /\ frames[c].op = "new TeamPipelineClient" /\ frames[c].pc = "resolved"
    /\ frames[c].args = OtherClientOptions
    /\ frames[d].op = "forJob" /\ frames[d].pc = "resolved"
    /\ frames[d].self = frames[c].alloc
    /\ Len(history) = 1
    /\ history[1].via = Func("otherHttpClient")
    /\ Len(heap) = Len(InitialHeap) + 2

\* The URL and the parameters of the target request, from the instance and
\* the options of the call alone.
TargetUrl(op, this, o) ==
  CASE op = "jobs" -> jobsUri(this.uri, this.teamName, o.pipeline)
    [] op = "pipelines" ->
         IF o.all = Bool(TRUE) THEN allPipelinesUri(this.uri)
         ELSE pipelinesUri(this.uri, this.teamName)
    [] op = "builds" ->
         IF o.job # Undefined
         THEN buildsUriFor(this.uri, this.teamName,
                           jobRegexExec(o.job.v)[1], jobRegexExec(o.job.v)[2],
                           o.team)
         ELSE buildsUriFor(this.uri, this.teamName, o.pipeline, Undefined,
                           o.team)

TargetParams(op, o) ==
  IF op # "builds" \/ o.count = Null THEN NoFields
  ELSE IF o.count = Undefined THEN [limit |-> Num(DefaultCount)]
  ELSE [limit |-> o.count]

\* C15: calls in flight at the same time, on one instance or on instances
\* login produced, are independent under every interleaving: the exchange of
\* a call carries the credentials of its own instance, its target request
\* the token its own exchange returned and the URL and limit of its own
\* options, and the call returns the body that answers its own target
\* request.
C15_CallsIndependent ==
  \A c \in Calls :
    frames[c].op \in Listings =>
      LET rs == RequestsOf(c)
          this == heap[frames[c].self].f
          o == frames[c].args
      IN  /\ Len(rs) >= 1 =>
               /\ rs[1].url = authTokenUri(this.uri, this.teamName)
               /\ rs[1].headers
                    = basicAuthHeader(this.username, this.password)
          /\ TargetIssued(c) =>
               /\ rs[2].headers = bearerAuthHeader(OwnToken(c))
               /\ rs[2].url = TargetUrl(frames[c].op, this, o)
               /\ rs[2].params = TargetParams(frames[c].op, o)
               /\ \A d \in Calls \ {c} :
                    TokenObtained(d) =>
                      rs[2].headers # bearerAuthHeader(OwnToken(d))
          /\ frames[c].pc = "resolved" =>
               /\ TargetIssued(c)
               /\ history[LastRequestOf(c)] = rs[2]
               /\ frames[c].ret = ListingFromApi(LastRequestOf(c))
               /\ \A d \in Calls \ {c} :
                    frames[d].op \in Listings /\ frames[d].pc = "resolved"
                      => frames[d].ret # frames[c].ret

C15_Witness ==
  \E c, d \in Calls :
    /\ c < d
    /\ frames[c].op = "builds" /\ frames[c].pc = "resolved"
    /\ frames[d].op = "builds" /\ frames[d].pc = "resolved"
    /\ frames[c].args.count = Num(2)
    /\ frames[d].args.count = Null
    /\ Len(history) = 4
    /\ history[2].call = d /\ history[3].call = d /\ history[4].call = c
    /\ Len(frames[d].received) = 2 /\ Len(frames[c].received) = 2

\* A call whose exchange has failed.
C16_Failed ==
  \A c \in Calls : \A e \in ExchangeFailures :
    frames[c].op \in Listings /\ GetFailed(c, e) =>
      /\ frames[c].pc = "rejected"
      /\ frames[c].err = e
      /\ frames[c].ret = Undefined
      /\ frames[c].bearerAuthToken = Undefined
      /\ Len(RequestsOf(c)) = 1
      /\ IsExchange(RequestsOf(c)[1])

\* The step in which the exchange of a call fails issues no request and
\* leaves every object as it is.
C16_FailingStep ==
  \A c \in Calls :
    /\ frames[c].op \in Listings
    /\ frames[c].pc = "awaitToken"
    /\ frames'[c] # frames[c]
    /\ ~frames'[c].received[1].ok
    => /\ history' = history
       /\ heap' = heap
       /\ frames'[c].pc = "rejected"

\* C16: when the token exchange of jobs, pipelines or builds fails, the
\* target request is never issued, the call fails with the very error the
\* transport raised, the exchange is not tried again, and the fields of the
\* instance are unchanged.
C16_ExchangeFailurePropagates == []C16_Failed /\ [][C16_FailingStep]_vars

C16_Witness ==
  \E c, d \in Calls :
    /\ frames[c].op = "jobs" /\ GetFailed(c, StatusError(401))
    /\ frames[d].op = "builds" /\ GetFailed(d, NetworkError)
    /\ frames[c].pc = "rejected" /\ frames[d].pc = "rejected"
    /\ frames[c].self = frames[d].self
    /\ heap[frames[c].self].f = ValidSessionOptions
    /\ Len(history) = 2

\* Every object holds what its construction assigned: the two objects of the
\* start, the objects the constructors and login returned, and the children
\* of forJob, whose team and pipeline are the parent's.
C17_AsConstructed ==
  /\ heap[1].f = ValidSessionOptions
  /\ heap[2].f = ValidClientOptions
  /\ \A c \in Calls :
       LET i == frames[c].alloc
       IN  frames[c].pc = "resolved" /\ i # 0 =>
             CASE frames[c].op \in Constructors -> heap[i].f = frames[c].args
               [] frames[c].op = "login" ->
                    /\ heap[i].f.uri = heap[frames[c].self].f.uri
                    /\ heap[i].f.username = frames[c].args.username
                    /\ heap[i].f.password = frames[c].args.password
               [] frames[c].op = "forJob" ->
                    /\ heap[i].f.team = heap[frames[c].self].f.team
                    /\ heap[i].f.pipeline = heap[frames[c].self].f.pipeline
                    /\ heap[i].f.apiUrl = heap[frames[c].self].f.apiUrl
                    /\ heap[i].f.httpClient = heap[frames[c].self].f.httpClient
               [] OTHER -> FALSE

\* No step changes an object there is.
C17_ObjectsKept ==
  \A i \in 1..Len(heap) : i <= Len(heap') /\ heap'[i] = heap[i]

\* C17: a client is immutable after construction: whatever operations are
\* called on it, and whether they succeed or fail, its fields hold the values
\* assigned at construction, and the child forJob returns has the parent's
\* team and pipeline, which stay as they are.
C17_ImmutableAfterConstruction ==
  []C17_AsConstructed /\ [][C17_ObjectsKept]_vars

C17_Witness ==
  \E c, d \in Calls :
    /\ frames[c].op = "forJob" /\ frames[c].pc = "resolved"
    /\ frames[c].self = 2
    /\ heap[frames[c].alloc].f.pipeline = Pipeline
    /\ frames[d].op = "builds" /\ frames[d].self = 1
    /\ frames[d].pc = "rejected" /\ GetFailed(d, NetworkError)
    /\ heap[1].f = ValidSessionOptions
    /\ heap[2].f = ValidClientOptions
====
